---- MODULE Spec2Model ----
(***************************************************************************)
(* uklient: resolve a mod-loader build, register a profile, obtain a      *)
(* credential, install the modpack, launch the game (src/src/main.rs).    *)
(*                                                                         *)
(* The state is the position of the main task, the spawned authentication  *)
(* task and its one-shot channel, the locals main keeps between steps,     *)
(* and the files that outlive one run of the program: the credential       *)
(* file, the archive cache and the profile directory.  Every call of a    *)
(* collaborator library is one step whose outcome (a value, or a failure)  *)
(* is chosen by the environment.                                           *)
(***************************************************************************)
EXTENDS Naturals, Sequences, FiniteSets, TLC

VARIABLES
    entry,          \* the function this run enters: main, or one called directly
    argGame,        \* game_version handed to the entered function
    argLoader,      \* loader handed to the entered function
    run,            \* number of the current run of the program
    pc,             \* position of the main task
    result,         \* what the entered function returned, once it has
    log,            \* external effects of this run, in order
    builds,         \* the decoded answer of the metadata service (main.rs:188,210)
    loader_version, \* main's loader_version                    (main.rs:54)
    cred,           \* creds / cred                             (main.rs:81,234,248)
    credFile,       \* ./credentials.json                       (main.rs:226)
    chan,           \* the oneshot channel (tx, rx)              (main.rs:242)
    auth,           \* the spawned task `flow`                   (main.rs:243)
    authCred,       \* what the spawned task resolved to
    cache,          \* <home>/.config/uklient/.cache            (main.rs:123)
    dl,             \* per cache file name, its downloads so far: what each left
                    \* in the cache, or "err"
    listed,         \* the answer of list_versions               (main.rs:109)
    version,        \* the selected modpack version              (main.rs:109)
    metadata,       \* the archive whose manifest was read       (main.rs:134)
    overrides,      \* the enumerated overrides                  (main.rs:146)
    fileIdx,        \* index of the manifest file being downloaded (main.rs:148)
    overIdx,        \* index of the override being applied       (main.rs:156)
    outDir          \* paths present under output_dir            (main.rs:45)

vars == <<entry, argGame, argLoader, run, pc, result, log, builds, loader_version, cred,
          credFile, chan, auth, authCred, cache, dl, listed, version, metadata,
          overrides, fileIdx, overIdx, outDir>>

(***************************************************************************)
(* Bounds of the model.                                                    *)
(***************************************************************************)
MaxRuns == 3        \* runs of the program against the same files
MaxBuilds == 2      \* length of a loader-build list the metadata service returns
MaxVersions == 2    \* length of a modpack version list the content host returns

(***************************************************************************)
(* Results and errors (Result<T>, UklientError).  `line` is the source     *)
(* line of the `?` (or `return Err`) that produced the error.              *)
(***************************************************************************)
NoResult == [tag |-> "None"]
OkUnit == [tag |-> "Ok"]
Ok(v) == [tag |-> "Ok", val |-> v]
Err(kind, arg, line) == [tag |-> "Err", kind |-> kind, arg |-> arg, line |-> line]

\* The answer of a service: none yet, or the list it returned.
NoAnswer == [asked |-> FALSE, list |-> <<>>]
Answer(list) == [asked |-> TRUE, list |-> list]

(***************************************************************************)
(* Sequences up to a length.                                               *)
(***************************************************************************)
SeqsUpTo(S, n) == UNION {[1..k -> S] : k \in 0..n}

(***************************************************************************)
(* Version Resolver.                                                       *)
(***************************************************************************)
FABRIC_META_URL == "https://meta.fabricmc.net/v2"
QUILT_META_URL == "https://meta.quiltmc.org/v3"

GameVersions == {"1.19.3", "1.19.2"}

\* MetaLoaderVersion, the fields the program reads (version, stable).
LoaderBuilds ==
    { [version |-> "0.17.2", stable |-> TRUE],
      [version |-> "0.18.1-beta.3", stable |-> FALSE],
      [version |-> "0.14.11", stable |-> TRUE] }

\* Vec<LoaderVersionElement>: the decoded answer of the metadata service.
LoaderVersionElement == [loader : LoaderBuilds]
BuildLists == SeqsUpTo(LoaderVersionElement, MaxBuilds)

\* LoaderVersion { id, stable, url }
LoaderVersionOf(base, mc_version, latest) ==
    [ id |-> latest.version,
      stable |-> latest.stable,
      url |-> base \o "/versions/loader/" \o mc_version \o "/" \o latest.version
                   \o "/profile/json" ]

\* versions[0] in place of versions.get(0): indexing an empty Vec panics.
get_latest_fabric_indexing(mc_version, versions) ==
    IF Len(versions) = 0
    THEN Err("Panic", "index out of bounds", 190)
    ELSE Ok(LoaderVersionOf(FABRIC_META_URL, mc_version, versions[1].loader))

\* get_latest_fabric, after the download and the JSON decoding succeeded.
get_latest_fabric(mc_version, versions) ==
    IF Len(versions) = 0
    THEN Err("MetaError", "fabric", 190)
    ELSE Ok(LoaderVersionOf(FABRIC_META_URL, mc_version, versions[1].loader))

\* The oldest build in place of the newest.
get_latest_quilt_last(mc_version, versions) ==
    IF Len(versions) = 0
    THEN Err("MetaError", "quilt", 212)
    ELSE Ok(LoaderVersionOf(QUILT_META_URL, mc_version,
                            versions[Len(versions)].loader))

\* get_latest_quilt, after the download and the JSON decoding succeeded.
get_latest_quilt(mc_version, versions) ==
    IF Len(versions) = 0
    THEN Err("MetaError", "quilt", 212)
    ELSE Ok(LoaderVersionOf(QUILT_META_URL, mc_version, versions[1].loader))

(***************************************************************************)
(* Modpack version selection.  Loader names are byte strings, so that the  *)
(* ASCII case folding is computed on the bytes as the code computes it.    *)
(***************************************************************************)
StrQuilt == <<81, 117, 105, 108, 116>>          \* "Quilt"
StrFabric == <<70, 97, 98, 114, 105, 99>>       \* "Fabric"
Str_quilt == <<113, 117, 105, 108, 116>>        \* "quilt"
Str_QUILT == <<81, 85, 73, 76, 84>>             \* "QUILT"
Str_fabric == <<102, 97, 98, 114, 105, 99>>     \* "fabric"
Str_forge == <<102, 111, 114, 103, 101>>        \* "forge"
Str_quilt_brace == <<113, 117, 105, 108, 116, 123>>  \* "quilt{"

ModLoaders == {"Quilt", "Fabric"}

\* format!("{loader}"): Display of ModLoader.
LoaderDisplay(loader) == IF loader = "Quilt" THEN StrQuilt ELSE StrFabric

\* u8::to_ascii_lowercase
to_ascii_lowercase(c) == IF c >= 65 /\ c <= 90 THEN c + 32 ELSE c

\* == in place of eq_ignore_ascii_case.
eq_case_sensitive(a, b) == a = b

\* str::eq_ignore_ascii_case
eq_ignore_ascii_case(a, b) ==
    /\ Len(a) = Len(b)
    /\ \A i \in 1..Len(a) : to_ascii_lowercase(a[i]) = to_ascii_lowercase(b[i])

CacheFiles == {"ukupvp-3.mrpack", "ukupvp-2.mrpack"}

\* The published versions the content host may list: name, game_versions,
\* loaders, and the file name of the primary file.
VersionUniverse ==
    { [ name |-> "3.0 quilt", game_versions |-> {"1.19.3"},
        loaders |-> {Str_quilt}, file |-> "ukupvp-3.mrpack" ],
      [ name |-> "2.0 quilt", game_versions |-> {"1.19.2"},
        loaders |-> {Str_QUILT, Str_forge}, file |-> "ukupvp-2.mrpack" ],
      [ name |-> "3.0 fabric", game_versions |-> {"1.19.3", "1.19.2"},
        loaders |-> {Str_fabric, Str_quilt_brace}, file |-> "ukupvp-2.mrpack" ],
      [ name |-> "3.1 multi", game_versions |-> {"1.19.3"},
        loaders |-> {Str_QUILT, StrFabric}, file |-> "ukupvp-3.mrpack" ] }

VersionLists == SeqsUpTo(VersionUniverse, MaxVersions)

NoVersion == [name |-> "", game_versions |-> {}, loaders |-> {}, file |-> ""]

RECURSIVE FindFirst(_, _)
\* Iterator::find on the filtered iterator: the first element whose loaders
\* hold `loader`, or Err where the iterator is exhausted.
FindFirst(vs, loader) ==
    IF Len(vs) = 0
    THEN Err("MetaError", "modpack", 115)
    ELSE IF \E s \in Head(vs).loaders : eq_ignore_ascii_case(s, loader)
         THEN Ok(Head(vs))
         ELSE FindFirst(Tail(vs), loader)

\* lines 109-116: .iter().filter(game version).find(loader).ok_or(MetaError)
SelectVersion(versions, game_version, loader) ==
    FindFirst(SelectSeq(versions, LAMBDA v : game_version \in v.game_versions),
              loader)

(***************************************************************************)
(* Modpack archives: what a cached .mrpack holds.  Manifest is the file    *)
(* list of its modrinth.index.json, OverrideSet the entries of its         *)
(* overrides directory, each a file, a directory, or neither (a broken     *)
(* symlink).                                                               *)
(***************************************************************************)
ArchiveIds == {"packA", "packB"}
NoArchive == "none"

Manifest(a) ==
    IF a = "packA" THEN <<"mods/a.jar", "mods/b.jar">>
    ELSE IF a = "packB" THEN <<"mods/a.jar">>
    ELSE <<>>

OverrideSet(a) ==
    IF a = "packA"
    THEN { [name |-> "config", kind |-> "dir"],
           [name |-> "options.txt", kind |-> "file"] }
    ELSE IF a = "packB"
    THEN { [name |-> "options.txt", kind |-> "file"],
           [name |-> "link", kind |-> "other"] }
    ELSE {}

\* read_dir yields the entries in an order of the file system's choosing.
Enumerations(S) ==
    { q \in [1..Cardinality(S) -> S] : \A e \in S : \E i \in DOMAIN q : q[i] = e }

(***************************************************************************)
(* Credentials and their JSON form in ./credentials.json.                  *)
(***************************************************************************)
AccountIds == {"uku", "alt"}
Tokens == {"t1", "t2"}
Credentials == [id : AccountIds, tok : Tokens]
NoCred == [id |-> "", tok |-> ""]

\* serde_json::to_writer: the document written for a credential.
to_json(c) == <<"{", c.id, c.tok, "}">>

\* serde_json::from_reader: a credential, or a decoding error.
from_json(data) ==
    IF /\ Len(data) = 4
       /\ data[1] = "{"
       /\ data[4] = "}"
       /\ data[2] \in AccountIds
       /\ data[3] \in Tokens
    THEN Ok([id |-> data[2], tok |-> data[3]])
    ELSE Err("JsonError", "", 232)

NoFile == [exists |-> FALSE, data |-> <<>>]
FileOf(data) == [exists |-> TRUE, data |-> data]

\* What a write that failed part-way leaves of a document.
Truncations(doc) == { SubSeq(doc, 1, k) : k \in 0..(Len(doc) - 1) }

(***************************************************************************)
(* Initial states.                                                         *)
(***************************************************************************)
NoLoaderVersion == [id |-> "", stable |-> FALSE, url |-> ""]

FirstPc(e) ==
    IF e = "main" THEN "locate_java"
    ELSE IF e \in {"get_latest_fabric", "get_latest_quilt"} THEN "resolve"
    ELSE IF e = "install_modpack" THEN "im_list"
    ELSE "ca_exists"

\* The locals of one run, before it starts.
FreshRun ==
    /\ result = NoResult
    /\ log = <<>>
    /\ builds = NoAnswer
    /\ loader_version = NoLoaderVersion
    /\ cred = NoCred
    /\ chan = "none"
    /\ auth = "none"
    /\ authCred = NoCred
    /\ listed = NoAnswer
    /\ version = NoVersion
    /\ metadata = NoArchive
    /\ overrides = <<>>
    /\ fileIdx = 0
    /\ overIdx = 0

\* main (game_version "1.19.3", loader Quilt: lines 52-53), or a direct call
\* of one of the functions with arguments of the caller's choosing, against
\* a machine on which the program has not run yet.
Init ==
    /\ \/ entry = "main" /\ argGame = "1.19.3" /\ argLoader = "Quilt"
       \/ entry = "get_latest_fabric" /\ argGame \in GameVersions
                                      /\ argLoader = "Fabric"
       \/ entry = "get_latest_quilt" /\ argGame \in GameVersions
                                     /\ argLoader = "Quilt"
       \/ entry = "install_modpack" /\ argGame \in GameVersions
                                    /\ argLoader \in ModLoaders
    /\ run = 1
    /\ pc = FirstPc(entry)
    /\ FreshRun
    /\ credFile = NoFile
    /\ cache = [f \in CacheFiles |-> NoArchive]
    /\ dl = [f \in CacheFiles |-> <<>>]
    /\ outDir = {}

(***************************************************************************)
(* Steps of the main task.  Goto: the step succeeded and main goes on.     *)
(* Exit: the entered function returns r (every error is propagated by `?`  *)
(* up to the entered function's caller); the runtime is dropped with it,   *)
(* and a spawned task that has not finished is cancelled.                  *)
(***************************************************************************)
Goto(p) == pc' = p /\ result' = result /\ auth' = auth

Exit(r) ==
    /\ pc' = "exit"
    /\ result' = r
    /\ auth' = IF auth \in {"running", "waiting"} THEN "cancelled" ELSE auth

Event(op, arg) == [op |-> op, arg |-> arg]
Logged(op, arg) == log' = Append(log, Event(op, arg))

runVars == <<entry, argGame, argLoader, run>>
chanVars == <<chan, authCred>>
instVars == <<listed, version, metadata, overrides, fileIdx, overIdx>>
fsVars == <<credFile, cache, dl, outDir>>

\* lines 35-43
LocateJava ==
    /\ pc = "locate_java"
    /\ \/ Goto("create_dirs")
       \/ Exit(Err("JavaLocateError", "", 37))
    /\ UNCHANGED <<runVars, log, builds, loader_version, cred, chanVars, instVars, fsVars>>

\* lines 45-50
CreateDirs ==
    /\ pc = "create_dirs"
    /\ \/ Goto("resolve") /\ outDir' = outDir \cup {"mods"}
       \/ Exit(Err("IoError", "", 48)) /\ outDir' = outDir
    /\ UNCHANGED <<runVars, log, builds, loader_version, cred, chanVars, instVars,
                   credFile, cache, dl>>

\* The resolver returns r to its caller: main (line 58) or the direct caller.
ResolverReturns(r) ==
    IF r.tag = "Err"
    THEN Exit(r) /\ loader_version' = loader_version
    ELSE /\ loader_version' = r.val
         /\ IF entry = "main" THEN Goto("profile_add") ELSE Exit(OkUnit)

\* lines 181-201
GetLatestFabric ==
    /\ pc = "resolve"
    /\ \/ entry = "get_latest_fabric"
       \/ entry = "main" /\ argLoader # "Quilt"
    /\ \/ ResolverReturns(Err("DaedalusError", "", 186)) /\ builds' = builds
       \/ ResolverReturns(Err("JsonError", "", 189)) /\ builds' = builds
       \/ \E versions \in BuildLists :
            /\ builds' = Answer(versions)
            /\ ResolverReturns(get_latest_fabric(argGame, versions))
    /\ UNCHANGED <<runVars, log, cred, chanVars, instVars, fsVars>>

\* lines 203-223
GetLatestQuilt ==
    /\ pc = "resolve"
    /\ \/ entry = "get_latest_quilt"
       \/ entry = "main" /\ argLoader = "Quilt"
    /\ \/ ResolverReturns(Err("DaedalusError", "", 208)) /\ builds' = builds
       \/ ResolverReturns(Err("JsonError", "", 211)) /\ builds' = builds
       \/ \E versions \in BuildLists :
            /\ builds' = Answer(versions)
            /\ ResolverReturns(get_latest_quilt(argGame, versions))
    /\ UNCHANGED <<runVars, log, cred, chanVars, instVars, fsVars>>

\* profile::add without its `?`: main goes on whether or not it succeeded.
ProfileAddUnchecked ==
    /\ pc = "profile_add"
    /\ Goto("ca_exists")
    /\ \/ Logged("profile_add", "")
       \/ log' = log
    /\ loader_version' = NoLoaderVersion
    /\ builds' = NoAnswer
    /\ UNCHANGED <<runVars, cred, chanVars, instVars, fsVars>>

\* lines 61-80: the profile takes loader_version with it into profile::add;
\* the decoded list went out of scope with the resolver.
ProfileAdd ==
    /\ pc = "profile_add"
    /\ \/ Goto("ca_exists") /\ Logged("profile_add", "")
       \/ Exit(Err("TheseusError", "", 80)) /\ log' = log
    /\ loader_version' = NoLoaderVersion
    /\ builds' = NoAnswer
    /\ UNCHANGED <<runVars, cred, chanVars, instVars, fsVars>>

(***************************************************************************)
(* connect_account (lines 225-253).                                        *)
(***************************************************************************)
\* connect_account returns Ok(cred): main goes on (lines 81-84).
ConnectReturnsOk ==
    IF entry = "main"
    THEN Goto("im_list") /\ Logged("connected", "")
    ELSE Exit(OkUnit) /\ log' = log

\* line 228
CaTryExists ==
    /\ pc = "ca_exists"
    /\ \/ Exit(Err("IoError", "", 228))
       \/ credFile.exists /\ Goto("ca_open")
       \/ ~credFile.exists /\ Goto("ca_spawn")
    /\ UNCHANGED <<runVars, log, builds, loader_version, cred, chanVars, instVars, fsVars>>

\* line 230.  The block of lines 229-235 is a plain block, so its `?`
\* returns from connect_account itself.
CaOpen ==
    /\ pc = "ca_open"
    /\ \/ Goto("ca_parse")
       \/ Exit(Err("IoError", "", 230))
    /\ UNCHANGED <<runVars, log, builds, loader_version, cred, chanVars, instVars, fsVars>>

\* lines 231-232
CaParse ==
    /\ pc = "ca_parse"
    /\ LET creds == from_json(credFile.data) IN
         IF creds.tag = "Err"
         THEN Exit(creds) /\ cred' = cred
         ELSE Goto("ca_refresh") /\ cred' = creds.val
    /\ UNCHANGED <<runVars, log, builds, loader_version, chanVars, instVars, fsVars>>

\* The refresh followed by a write of the refreshed credential to the file.
CaRefreshPersists ==
    /\ pc = "ca_refresh"
    /\ \/ Exit(Err("TheseusError", "", 234))
          /\ UNCHANGED <<cred, log, credFile>>
       \/ \E c \in Credentials :
            /\ c.id = cred.id
            /\ cred' = c
            /\ credFile' = FileOf(to_json(c))
            /\ ConnectReturnsOk
    /\ UNCHANGED <<runVars, builds, loader_version, chanVars, instVars,
                   cache, dl, outDir>>

\* lines 234-239: refresh answers with a credential of the same account.
CaRefresh ==
    /\ pc = "ca_refresh"
    /\ \/ Exit(Err("TheseusError", "", 234)) /\ cred' = cred /\ log' = log
       \/ \E c \in Credentials :
            /\ c.id = cred.id
            /\ cred' = c
            /\ ConnectReturnsOk
    /\ UNCHANGED <<runVars, builds, loader_version, chanVars, instVars, fsVars>>

\* lines 242-243
CaSpawn ==
    /\ pc = "ca_spawn"
    /\ pc' = "ca_recv"
    /\ chan' = "empty"
    /\ auth' = "running"
    /\ Logged("spawn", "")
    /\ UNCHANGED <<runVars, result, builds, loader_version, cred, authCred, instVars, fsVars>>

\* line 245: rx.await resolves once a value was sent or the sender dropped.
CaRecv ==
    /\ pc = "ca_recv"
    /\ \/ chan = "sent" /\ chan' = "taken" /\ Goto("ca_browser")
                        /\ Logged("url", "")
       \/ chan = "closed" /\ chan' = chan /\ Exit(Err("RecvError", "", 245))
                          /\ log' = log
    /\ UNCHANGED <<runVars, builds, loader_version, cred, authCred, instVars, fsVars>>

\* line 246
CaBrowser ==
    /\ pc = "ca_browser"
    /\ \/ Goto("ca_join") /\ Logged("browser", "")
       \/ Exit(Err("IoError", "", 246)) /\ log' = log
    /\ UNCHANGED <<runVars, builds, loader_version, cred, chanVars, instVars, fsVars>>

\* line 248: flow.await??
CaJoin ==
    /\ pc = "ca_join"
    /\ \/ auth = "ok" /\ cred' = authCred /\ Goto("ca_create")
                      /\ Logged("joined", "")
       \/ auth = "err" /\ cred' = cred /\ Exit(Err("TheseusError", "", 248))
                       /\ log' = log
       \/ auth = "panicked" /\ cred' = cred /\ Exit(Err("JoinError", "", 248))
                            /\ log' = log
    /\ UNCHANGED <<runVars, builds, loader_version, chanVars, instVars, fsVars>>

\* line 249: File::create truncates the file, or creates it empty.
CaCreate ==
    /\ pc = "ca_create"
    /\ \/ Goto("ca_write") /\ credFile' = FileOf(<<>>)
       \/ Exit(Err("IoError", "", 249)) /\ credFile' = credFile
    /\ UNCHANGED <<runVars, log, builds, loader_version, cred, chanVars, instVars,
                   cache, dl, outDir>>

\* line 250: to_writer serialises into the BufWriter and returns; it does
\* not flush.  The BufWriter is dropped with the statement, and a failure
\* of the flush in its drop is discarded.
CaWrite ==
    /\ pc = "ca_write"
    /\ cred' = cred
    /\ \/ credFile' = FileOf(to_json(cred)) /\ ConnectReturnsOk
       \/ \E part \in Truncations(to_json(cred)) :
            /\ credFile' = FileOf(part)
            /\ Exit(Err("JsonError", "", 250))
            /\ log' = log
       \/ \E part \in Truncations(to_json(cred)) :
            /\ credFile' = FileOf(part)
            /\ ConnectReturnsOk
    /\ UNCHANGED <<runVars, builds, loader_version, chanVars, instVars, cache, dl, outDir>>

(***************************************************************************)
(* The spawned task, theseus::auth::authenticate(tx) (line 243): it sends  *)
(* the login URL over tx, then waits for the login to complete.  tx        *)
(* belongs to the task: when the task ends, tx is dropped.                 *)
(***************************************************************************)
\* A sender that outlives the task (a clone of it kept elsewhere).
SenderKept == chan

\* The drop of tx: a receiver that got no value is woken with a RecvError.
SenderDropped == IF chan = "empty" THEN "closed" ELSE chan

AuthSendUrl ==
    /\ auth = "running"
    /\ chan = "empty"
    /\ chan' = "sent"
    /\ auth' = "waiting"
    /\ UNCHANGED <<runVars, pc, result, log, builds, loader_version, cred, authCred,
                   instVars, fsVars>>

AuthComplete ==
    /\ auth = "waiting"
    /\ auth' = "ok"
    /\ \E c \in Credentials : authCred' = c
    /\ chan' = SenderDropped
    /\ UNCHANGED <<runVars, pc, result, log, builds, loader_version, cred, instVars, fsVars>>

AuthFail ==
    /\ auth \in {"running", "waiting"}
    /\ auth' = "err"
    /\ chan' = SenderDropped
    /\ UNCHANGED <<runVars, pc, result, log, builds, loader_version, cred, authCred,
                   instVars, fsVars>>

AuthPanic ==
    /\ auth \in {"running", "waiting"}
    /\ auth' = "panicked"
    /\ chan' = SenderDropped
    /\ UNCHANGED <<runVars, pc, result, log, builds, loader_version, cred, authCred,
                   instVars, fsVars>>

(***************************************************************************)
(* install_modpack (lines 100-170).                                        *)
(***************************************************************************)
\* lines 105-118
ImListVersions ==
    /\ pc = "im_list"
    /\ \/ Exit(Err("FerinthError", "", 111))
          /\ UNCHANGED <<listed, version, log>>
       \/ \E versions \in VersionLists :
            LET found == SelectVersion(versions, argGame, LoaderDisplay(argLoader))
            IN /\ listed' = Answer(versions)
               /\ IF found.tag = "Err"
                  THEN Exit(found) /\ UNCHANGED <<version, log>>
                  ELSE /\ Goto("im_mkcache")
                       /\ version' = found.val
                       /\ Logged("found", found.val.name)
    /\ UNCHANGED <<runVars, builds, loader_version, cred, chanVars, metadata, overrides,
                   fileIdx, overIdx, fsVars>>

\* lines 120-124
ImCreateCacheDir ==
    /\ pc = "im_mkcache"
    /\ \/ Goto("im_cache")
       \/ Exit(Err("IoError", "", 124))
    /\ listed' = NoAnswer
    /\ UNCHANGED <<runVars, log, builds, loader_version, cred, chanVars, version, metadata,
                   overrides, fileIdx, overIdx, fsVars>>

\* The download without the existence check of line 127.
EnsureCachedAlways ==
    /\ pc = "im_cache"
    /\ LET f == version.file IN
         \/ /\ \E a \in ArchiveIds : cache' = [cache EXCEPT ![f] = a]
            /\ dl' = [dl EXCEPT ![f] = Append(@, cache'[f])]
            /\ Goto("im_open")
            /\ Logged("archive_download", f)
         \/ /\ dl' = [dl EXCEPT ![f] = Append(@, "err")]
            /\ Exit(Err("LibiumError", "", 130))
            /\ UNCHANGED <<cache, log>>
    /\ UNCHANGED <<runVars, builds, loader_version, cred, chanVars, instVars, credFile,
                   outDir>>

\* lines 126-131: the archive is downloaded only when the cache path does
\* not exist; the download leaves the file under its name when it succeeds.
ImEnsureCached ==
    /\ pc = "im_cache"
    /\ LET f == version.file IN
         \/ /\ cache[f] # NoArchive
            /\ Goto("im_open")
            /\ UNCHANGED <<cache, dl, log>>
         \/ /\ cache[f] = NoArchive
            /\ \E a \in ArchiveIds : cache' = [cache EXCEPT ![f] = a]
            /\ dl' = [dl EXCEPT ![f] = Append(@, cache'[f])]
            /\ Goto("im_open")
            /\ Logged("archive_download", f)
         \/ /\ cache[f] = NoArchive
            /\ dl' = [dl EXCEPT ![f] = Append(@, "err")]
            /\ Exit(Err("LibiumError", "", 130))
            /\ UNCHANGED <<cache, log>>
    /\ UNCHANGED <<runVars, builds, loader_version, cred, chanVars, instVars, credFile,
                   outDir>>

\* lines 133-136
ImReadMetadata ==
    /\ pc = "im_open"
    /\ \/ Goto("im_extract") /\ metadata' = cache[version.file]
       \/ Exit(Err("IoError", "", 133)) /\ metadata' = metadata
       \/ Exit(Err("ZipError", "", 135)) /\ metadata' = metadata
       \/ Exit(Err("JsonError", "", 136)) /\ metadata' = metadata
    /\ UNCHANGED <<runVars, log, builds, loader_version, cred, chanVars, listed, version,
                   overrides, fileIdx, overIdx, fsVars>>

\* lines 138-145
ImExtract ==
    /\ pc = "im_extract"
    /\ \/ Goto("im_overrides") /\ Logged("extract", "")
       \/ Exit(Err("ZipError", "", 145)) /\ log' = log
    /\ UNCHANGED <<runVars, builds, loader_version, cred, chanVars, instVars, fsVars>>

\* lines 146, 172-179
ImReadOverrides ==
    /\ pc = "im_overrides"
    /\ \/ /\ \E listing \in Enumerations(OverrideSet(metadata)) :
                overrides' = listing
          /\ fileIdx' = 1
          /\ Goto("im_files")
       \/ /\ Exit(Err("IoError", "", 174))
          /\ UNCHANGED <<overrides, fileIdx>>
    /\ UNCHANGED <<runVars, log, builds, loader_version, cred, chanVars, listed, version,
                   metadata, overIdx, fsVars>>

\* The download of line 152 without its `?`: a failed file is skipped.
DownloadFileKeepsGoing ==
    /\ pc = "im_files"
    /\ fileIdx <= Len(Manifest(metadata))
    /\ LET file == Manifest(metadata)[fileIdx] IN
         \/ /\ outDir' = outDir \cup {file}
            /\ Logged("download", file)
         \/ UNCHANGED <<outDir, log>>
    /\ fileIdx' = fileIdx + 1
    /\ Goto("im_files")
    /\ UNCHANGED <<runVars, builds, loader_version, cred, chanVars, listed, version,
                   metadata, overrides, overIdx, credFile, cache, dl>>

\* lines 148-154, one turn of the loop
ImDownloadFile ==
    /\ pc = "im_files"
    /\ fileIdx <= Len(Manifest(metadata))
    /\ LET file == Manifest(metadata)[fileIdx] IN
         \/ /\ outDir' = outDir \cup {file}
            /\ Logged("download", file)
            /\ fileIdx' = fileIdx + 1
            /\ Goto("im_files")
         \/ /\ Exit(Err("LibiumError", "", 152))
            /\ UNCHANGED <<outDir, log, fileIdx>>
    /\ UNCHANGED <<runVars, builds, loader_version, cred, chanVars, listed, version,
                   metadata, overrides, overIdx, credFile, cache, dl>>

\* line 148 -> line 156: the file loop is over
ImFilesDone ==
    /\ pc = "im_files"
    /\ fileIdx > Len(Manifest(metadata))
    /\ overIdx' = 1
    /\ Goto("im_over")
    /\ UNCHANGED <<runVars, log, builds, loader_version, cred, chanVars, listed, version,
                   metadata, overrides, fileIdx, fsVars>>

\* lines 156-167, one turn of the loop
ImApplyOverride ==
    /\ pc = "im_over"
    /\ overIdx <= Len(overrides)
    /\ LET over == overrides[overIdx] IN
         \/ /\ over.kind \in {"file", "dir"}
            /\ outDir' = outDir \cup {over.name}
            /\ Logged("override", over.name)
            /\ overIdx' = overIdx + 1
            /\ Goto("im_over")
         \/ /\ over.kind = "file"
            /\ Exit(Err("IoError", "", 158))
            /\ UNCHANGED <<outDir, log, overIdx>>
         \/ /\ over.kind = "dir"
            /\ Exit(Err("FsExtraError", "", 162))
            /\ UNCHANGED <<outDir, log, overIdx>>
         \/ /\ over.kind \notin {"file", "dir"}
            /\ Exit(Err("UnknownTypeError", over.name, 164))
            /\ UNCHANGED <<outDir, log, overIdx>>
    /\ UNCHANGED <<runVars, builds, loader_version, cred, chanVars, listed, version,
                   metadata, overrides, fileIdx, credFile, cache, dl>>

\* line 169, and main's lines 84-85
ImDone ==
    /\ pc = "im_over"
    /\ overIdx > Len(overrides)
    /\ IF entry = "main"
       THEN Goto("run") /\ Logged("installed", "")
       ELSE Exit(OkUnit) /\ log' = log
    /\ UNCHANGED <<runVars, builds, loader_version, cred, chanVars, instVars, fsVars>>

(***************************************************************************)
(* Launch (lines 87-97) and the next run of the program.                   *)
(***************************************************************************)
\* line 87
ProfileRun ==
    /\ pc = "run"
    /\ \/ Goto("wait") /\ Logged("launch", "")
       \/ Exit(Err("TheseusError", "", 87)) /\ log' = log
    /\ UNCHANGED <<runVars, builds, loader_version, cred, chanVars, instVars, fsVars>>

\* lines 94-97
ProcessWait ==
    /\ pc = "wait"
    /\ \/ Exit(OkUnit)
       \/ Exit(Err("IoError", "", 94))
    /\ UNCHANGED <<runVars, log, builds, loader_version, cred, chanVars, instVars, fsVars>>

\* The program is started again on the same machine: its locals are new,
\* the files are as the last run left them.
NextRun ==
    /\ pc = "exit"
    /\ entry = "main"
    /\ run < MaxRuns
    /\ run' = run + 1
    /\ pc' = FirstPc(entry)
    /\ result' = NoResult
    /\ log' = <<>>
    /\ builds' = NoAnswer
    /\ loader_version' = NoLoaderVersion
    /\ cred' = NoCred
    /\ chan' = "none"
    /\ auth' = "none"
    /\ authCred' = NoCred
    /\ listed' = NoAnswer
    /\ version' = NoVersion
    /\ metadata' = NoArchive
    /\ overrides' = <<>>
    /\ fileIdx' = 0
    /\ overIdx' = 0
    /\ UNCHANGED <<entry, argGame, argLoader, fsVars>>

Next ==
    \/ LocateJava \/ CreateDirs \/ GetLatestFabric \/ GetLatestQuilt \/ ProfileAdd
    \/ CaTryExists \/ CaOpen \/ CaParse \/ CaRefresh \/ CaSpawn \/ CaRecv
    \/ CaBrowser \/ CaJoin \/ CaCreate \/ CaWrite
    \/ AuthSendUrl \/ AuthComplete \/ AuthFail \/ AuthPanic
    \/ ImListVersions \/ ImCreateCacheDir \/ ImEnsureCached \/ ImReadMetadata
    \/ ImExtract \/ ImReadOverrides \/ ImDownloadFile \/ ImFilesDone
    \/ ImApplyOverride \/ ImDone
    \/ ProfileRun \/ ProcessWait \/ NextRun

Spec == Init /\ [][Next]_vars

\* The runtime polls the main task once its receiver is woken: by the value
\* sent, or by the drop of the sender.
FairSpec == Spec /\ WF_vars(CaRecv)

(***************************************************************************)
(* Properties.                                                             *)
(***************************************************************************)
Has(op) == \E i \in DOMAIN log : log[i].op = op

\* every `later` event of the log has an `earlier` event before it
Precedes(earlier, later) ==
    \A i \in DOMAIN log :
        log[i].op = later => \E j \in 1..(i - 1) : log[j].op = earlier

Failed == pc = "exit" /\ result.tag = "Err"
FailedAt(lines) == Failed /\ result.line \in lines

IsPrefix(p, q) == Len(p) <= Len(q) /\ \A i \in DOMAIN p : p[i] = q[i]

\* C1: when the credential file exists but opening it (line 230), parsing it
\* (line 232) or refreshing it (line 234) fails, connect_account falls
\* through to the interactive login: no run returns that error to its caller.
C1_StaleCredentialFallsThrough == ~FailedAt({230, 232, 234})

\* The milestones of main, and the line numbers of the fallible steps of
\* connect_account and of install_modpack.
MilestoneOrder == <<"profile_add", "connected", "installed", "launch">>
AfterRegistration ==
    {"spawn", "url", "browser", "joined", "connected", "found",
     "archive_download", "extract", "download", "override", "installed", "launch"}
BootstrapLines == {228, 230, 232, 234, 245, 246, 248, 249, 250}
InstallLines == {111, 115, 124, 130, 133, 135, 136, 145, 174, 152, 158, 162, 164}

\* C2: in every run of main the milestones come in the order profile::add,
\* credential bootstrap, install_modpack, profile::run; the login, the
\* installation and the launch never start before the registration has
\* succeeded, and there is no launch in a run whose credential bootstrap or
\* installation failed.
C2_MilestonesInOrder ==
    entry = "main" =>
        LET done == SelectSeq(log, LAMBDA e : e.op \in
                        {"profile_add", "connected", "installed", "launch"})
        IN /\ IsPrefix([i \in DOMAIN done |-> done[i].op], MilestoneOrder)
           /\ \A op \in AfterRegistration : Precedes("profile_add", op)
           /\ pc \in {"run", "wait"} => Has("installed")
           /\ pc \notin {"locate_java", "create_dirs", "resolve", "profile_add", "exit"}
                => Has("profile_add")
           /\ FailedAt(BootstrapLines \cup InstallLines) => ~Has("launch")

C2_Launched == entry = "main" /\ pc = "exit" /\ result = OkUnit /\ Has("launch")

\* The loader whose metadata service this run queries.
ResolverOf ==
    IF entry = "get_latest_fabric" \/ (entry = "main" /\ argLoader # "Quilt")
    THEN "fabric" ELSE "quilt"

\* C3: for a non-empty list of loader builds the resolver returns the id and
\* the stable flag of the element at index 0 and the manifest url
\* <base>/versions/loader/<game_version>/<id>/profile/json, <base> being the
\* metadata url of the loader queried.
C3_NewestBuildResolved ==
    (builds.asked /\ builds.list # <<>>) =>
        LET first == builds.list[1].loader
            base == IF ResolverOf = "fabric" THEN "https://meta.fabricmc.net/v2"
                    ELSE "https://meta.quiltmc.org/v3"
        IN /\ result.tag # "Err"
           /\ loader_version.id = first.version
           /\ loader_version.stable = first.stable
           /\ loader_version.url =
                base \o "/versions/loader/" \o argGame \o "/" \o first.version
                     \o "/profile/json"
           /\ (ResolverOf = "fabric" /\ argGame = "1.19.3" /\ first.version = "0.17.2")
                => loader_version.url =
                   "https://meta.fabricmc.net/v2/versions/loader/1.19.3/0.17.2/profile/json"

C3_ResolvedFirstOfTwo ==
    /\ builds.asked
    /\ Len(builds.list) = 2
    /\ builds.list[1] # builds.list[2]
    /\ ResolverOf = "quilt"
    /\ loader_version.id = builds.list[1].loader.version

\* C4: when the metadata service returns an empty list, the resolver fails
\* with MetaError carrying the name of the loader queried; it does not panic
\* and returns no LoaderVersion, and main stops before registering a profile.
C4_EmptyListIsMetaError ==
    (builds.asked /\ builds.list = <<>>) =>
        /\ Failed
        /\ result.kind = "MetaError"
        /\ result.arg = ResolverOf
        /\ loader_version = NoLoaderVersion
        /\ ~Has("profile_add")

C4_MainStoppedOnEmptyList ==
    entry = "main" /\ builds.asked /\ builds.list = <<>> /\ pc = "exit"

\* The listed version has the requested game version and loader.
AsciiUpper(c) == IF c >= 97 /\ c <= 122 THEN c - 32 ELSE c
SameButForAsciiCase(a, b) ==
    /\ DOMAIN a = DOMAIN b
    /\ \A i \in DOMAIN a : AsciiUpper(a[i]) = AsciiUpper(b[i])
RequestedLoaderName == IF argLoader = "Quilt" THEN StrQuilt ELSE StrFabric
Suits(v) ==
    /\ argGame \in v.game_versions
    /\ \E s \in v.loaders : SameButForAsciiCase(s, RequestedLoaderName)
InstallEffects == {"archive_download", "extract", "download", "override"}

\* C5: install_modpack selects the first listed version whose game versions
\* hold the requested game version and whose loaders hold the requested
\* loader, compared without regard to ASCII case; where no version has both,
\* it fails with MetaError("modpack") before any archive download,
\* extraction, file download or override copy.
C5_FirstSuitableVersion ==
    listed.asked =>
        IF \E i \in DOMAIN listed.list : Suits(listed.list[i])
        THEN \E i \in DOMAIN listed.list :
                /\ Suits(listed.list[i])
                /\ \A j \in 1..(i - 1) : ~Suits(listed.list[j])
                /\ version = listed.list[i]
                /\ pc = "im_mkcache"
        ELSE /\ Failed
             /\ result.kind = "MetaError"
             /\ result.arg = "modpack"
             /\ \A op \in InstallEffects : ~Has(op)
             /\ version = NoVersion

C5_SecondListedSelected ==
    /\ listed.asked
    /\ Len(listed.list) = 2
    /\ ~Suits(listed.list[1])
    /\ version = listed.list[2]
    /\ \E s \in version.loaders : s # RequestedLoaderName /\ Suits(version)

\* C6: over the runs that resolve one archive file name, when the first
\* download succeeds it is the only download: every later run finds the
\* cache path existing, downloads nothing, and reads the file that download
\* left, unchanged, at the same path.
C6_ArchiveDownloadedOnce ==
    \A f \in CacheFiles :
        /\ (dl[f] # <<>> /\ dl[f][1] # "err") => dl[f] = <<cache[f]>>
        /\ \A i \in DOMAIN dl[f] :
              dl[f][i] # "err" => (i = Len(dl[f]) /\ cache[f] = dl[f][i])
        /\ (cache[f] = NoArchive) => \A i \in DOMAIN dl[f] : dl[f][i] = "err"
        /\ (version.file = f /\ metadata # NoArchive) => metadata = cache[f]
        /\ (version.file = f /\ pc = "im_open") => cache[f] # NoArchive

C6_CacheHitInLaterRun ==
    /\ run >= 2
    /\ pc = "im_extract"
    /\ ~Has("archive_download")
    /\ dl[version.file] = <<metadata>>

\* The entries installed in this run, and the entries the archive asks for.
InstalledLog == SelectSeq(log, LAMBDA e : e.op \in {"download", "override"})
Planned ==
    [i \in 1..Len(Manifest(metadata)) |-> Event("download", Manifest(metadata)[i])]
    \o [j \in 1..Len(overrides) |-> Event("override", overrides[j].name)]

\* C7: the installer takes the manifest files in order, then the overrides in
\* order, and stops at the first entry that fails: after a failed download of
\* file i no later file is downloaded and no override applied; an override j
\* that is neither file nor directory fails the install with
\* UnknownTypeError(name of j) and no later override is applied; what was
\* processed before the failing entry stays in the output directory.
C7_StopsAtFirstFailure ==
    fileIdx >= 1 =>
        LET nFiles == Len(Manifest(metadata)) IN
        /\ IsPrefix(InstalledLog, Planned)
        /\ \A i \in DOMAIN InstalledLog : InstalledLog[i].arg \in outDir
        /\ \A j \in 1..Len(overrides) :
              Len(InstalledLog) >= nFiles + j => overrides[j].kind \in {"file", "dir"}
        /\ FailedAt({152}) =>
              /\ fileIdx \in 1..nFiles
              /\ Len(InstalledLog) = fileIdx - 1
        /\ FailedAt({158, 162, 164}) =>
              /\ overIdx \in DOMAIN overrides
              /\ Len(InstalledLog) = nFiles + overIdx - 1
        /\ (Failed /\ result.kind = "UnknownTypeError") =>
              /\ result.line = 164
              /\ result.arg = overrides[overIdx].name
              /\ overrides[overIdx].kind \notin {"file", "dir"}

C7_UnknownTypeAfterOneOverride ==
    /\ Failed
    /\ result.kind = "UnknownTypeError"
    /\ overIdx = 2
    /\ overrides[1].name \in outDir
    /\ Len(InstalledLog) = Len(Manifest(metadata)) + 1

\* C8: whenever connect_account returns a credential obtained through the
\* interactive login, the credential file holds exactly that credential,
\* written in full; without a credential file the interactive login is
\* always entered, and a failure of it is fatal, with no further attempt.
C8_LoginPersistedInFull ==
    /\ (Has("joined") /\ Has("connected")) => credFile = FileOf(to_json(cred))
    /\ pc \in {"ca_open", "ca_parse", "ca_refresh"} => credFile.exists
    /\ Len(SelectSeq(log, LAMBDA e : e.op = "spawn")) <= 1
    /\ FailedAt({245, 246, 248}) => Has("spawn")

\* The spawned task ended, by failure or panic, and sent no URL.
EndedUnsent == auth \in {"err", "panicked"} /\ chan \notin {"sent", "taken"}

\* The browser is opened after the URL was received, success is returned
\* after a successful join, and a task that ended unsent dropped its sender.
C9_LoginSafety ==
    /\ Precedes("url", "browser")
    /\ pc \in {"ca_browser", "ca_join"} => chan = "taken"
    /\ (Has("spawn") /\ Has("connected")) =>
          (Precedes("joined", "connected") /\ auth = "ok")
    /\ pc \in {"ca_create", "ca_write"} => (Has("joined") /\ auth = "ok")
    /\ EndedUnsent => chan = "closed"
    /\ FailedAt({245}) => EndedUnsent

\* C9: in the browser login the main task opens the browser only after it
\* received the URL over the channel; connect_account returns success only
\* after the spawned task was joined with a successful result; and when the
\* spawned task ends, by failure or panic, without having sent a URL, the
\* sender is dropped and the main task gets a receive error and fails,
\* rather than waiting for ever.
C9_BrowserLogin ==
    /\ []C9_LoginSafety
    /\ (pc = "ca_recv" /\ EndedUnsent) ~> (FailedAt({245}) /\ result.kind = "RecvError")

C9_ReceiveErrorAfterPanic ==
    /\ FailedAt({245})
    /\ result.kind = "RecvError"
    /\ auth = "panicked"
    /\ chan = "closed"

\* C10: the credential file is written only where the interactive
\* authentication task completed successfully: the refresh-success path
\* returns the refreshed credential and leaves the file as it was, and so
\* does every failing path.
C10_FileWrittenOnlyAfterLogin ==
    [][credFile' # credFile =>
          /\ pc \in {"ca_create", "ca_write"}
          /\ auth = "ok"
          /\ Has("joined")]_vars

C10_RefreshedWithoutWrite ==
    /\ Has("connected")
    /\ ~Has("spawn")
    /\ credFile.exists
    /\ from_json(credFile.data).tag = "Ok"
    /\ from_json(credFile.data).val # cred

====
